---- MODULE Spec2Model ----
(***************************************************************************)
(* IEC 60870-5-104 APCI connection endpoint                                *)
(* (src_py/hat/drivers/iec60870/apci/connection.py, class Connection).     *)
(*                                                                         *)
(* One Connection is modelled: its fields, its send and receive queues,    *)
(* the frames it has written to the TCP stream, and the position of its    *)
(* three tasks (_read_loop, _write_loop, _test_loop) and of its timers.    *)
(* All of them run on one asyncio event loop, so a step of the model is    *)
(* the code a task or callback runs between two suspension points.         *)
(*                                                                         *)
(* Library behaviour the source relies on:                                 *)
(*  - aio.Queue: put_nowait raises QueueClosedError once the queue is      *)
(*    closed; get() returns queued items also after close and raises       *)
(*    QueueClosedError only when the queue is closed and empty.            *)
(*  - aio.Resource.close() closes the async group of the TCP connection,   *)
(*    which the three tasks belong to: each task is cancelled, and the     *)
(*    next thing a cancelled task runs is its finally block.               *)
(*  - tcp.Connection.write on a connection that is closing does not reach  *)
(*    the peer; whether it raises ConnectionError or drops the data is     *)
(*    left open (both outcomes are modelled).                              *)
(*  - asyncio timers (call_later) fire at some later time unless           *)
(*    cancelled; time itself is not modelled.                              *)
(***************************************************************************)
EXTENDS Integers, Sequences, FiniteSets, TLC

\* ------------------------------------------------------------------ bounds
\* number of send() calls
MaxSend == 2
\* number of drain() calls
MaxDrain == 1
\* number of APDUs read from the peer
MaxRead == 2
\* number of TESTFR_ACT probes of the test loop
MaxTest == 1
\* number of calls, APDUs and probes in one behaviour
MaxEvents == 4
\* largest send_window_size (k) a connection is constructed with
MaxSendWindow == 2
\* largest receive_window_size (w) a connection is constructed with
MaxReceiveWindow == 2
\* number of APDUs connect() reads while it waits for STARTDT_CON
MaxHandshake == 3
\* number of send() calls, and largest send_window_size, of the behaviours
\* that take three frames across the sequence number wrap
MaxWrapSend == 3
MaxWrapWindow == 3

\* --------------------------------------------------------------- constants
\* sequence numbers are 15 bit: (x + 1) % 0x8000
SeqMod == 32768

\* Sequence numbers a connection is observed from: a fresh connection (0) and
\* one that has exchanged and acknowledged 0x7FFE I-frames in both directions.
StartSeqs == {0, SeqMod - 2}

VARIABLES
    \* connect(): "tcp_connect" | "wait_startdt_con" | "connected" | "failed",
    \* or "listen" for a Connection the server side constructed
    connect_pc,
    \* Connection fields (__init__)
    always_enabled,          \* self._always_enabled
    is_enabled,              \* self._is_enabled
    send_window_size,        \* self._send_window_size
    receive_window_size,     \* self._receive_window_size
    receive_queue,           \* self._receive_queue: items
    receive_queue_closed,    \* self._receive_queue: closed
    send_queue,              \* self._send_queue: items
    send_queue_closed,       \* self._send_queue: closed
    test_event,              \* self._test_event is set
    ssn,                     \* self._ssn
    rsn,                     \* self._rsn
    ack,                     \* self._ack
    w,                       \* self._w
    supervisory_handle,      \* self._supervisory_handle is not None
    supervisory_timers,      \* call_later timers of _on_supervisory_timeout
                             \* that are neither cancelled nor fired
    waiting_ack_handles,     \* keys of self._waiting_ack_handles
    live_handles,            \* keys whose timer is neither cancelled nor fired
    notified,                \* _waiting_ack_cv: the waiting writer was notified
    \* the async group and the three tasks
    closing,                 \* close() was called on the async group
    read_pc,                 \* _read_loop: "read" | "done"
    write_pc,                \* _write_loop: "get" | "wait_for" | "done"
    asdu,                    \* _write_loop: the payload it holds in wait_for
    test_pc,                 \* _test_loop: "sleep" | "wait" | "done"
    \* the futures of the drain() calls: "pending" | "result" | "exception",
    \* or "unqueued" when put_nowait raised and drain() failed at once
    futures,
    \* the environment
    wire,                    \* APDUs written to the TCP stream, in order
    apdu,                    \* _read_loop: the APDU it read last
    nsend,                   \* send() calls so far
    nread,                   \* APDUs read so far
    ntest,                   \* TESTFR_ACT probes so far
    \* history
    send_result,             \* outcome of the last send() call
    enabled_at_send,         \* per send() call: is_enabled when it was made
    sent_before,             \* per drain() call: send() calls made before it
    accepted,                \* data of the I-frames _process_apdui accepted
    received,                \* data returned by receive() calls
    suspended,               \* payloads the writer suspended on in wait_for
    discarded                \* payloads the writer discarded, not enabled

vars == <<connect_pc, always_enabled, is_enabled, send_window_size,
          receive_window_size,
          receive_queue, receive_queue_closed, send_queue, send_queue_closed,
          test_event, ssn, rsn, ack, w, supervisory_handle, supervisory_timers,
          waiting_ack_handles, live_handles, notified, closing,
          read_pc, write_pc, asdu, test_pc, futures, wire, apdu, nsend, nread,
          ntest, send_result, enabled_at_send, sent_before, accepted, received,
          suspended, discarded>>

\* send() and drain() calls, APDUs read and probes sent so far
events == nsend + Len(futures) + nread + ntest

\* ------------------------------------------------------------------ frames
\* common.APDUI(ssn, rsn, data); data 0 is the empty payload b''
APDUI(s, r, d) == [type |-> "I", function |-> "-", ssn |-> s, rsn |-> r, data |-> d]

\* common.APDUS(rsn)
APDUS(r) == [type |-> "S", function |-> "-", ssn |-> 0, rsn |-> r, data |-> 0]

\* common.APDUU(function)
APDUU(f) == [type |-> "U", function |-> f, ssn |-> 0, rsn |-> 0, data |-> 0]

\* common.ApduFunction
ApduFunction == {"STARTDT_ACT", "STARTDT_CON", "STOPDT_ACT", "STOPDT_CON",
                 "TESTFR_ACT", "TESTFR_CON"}

\* no APDU read yet
NoApdu == [type |-> "-", function |-> "-", ssn |-> 0, rsn |-> 0, data |-> 0]

\* items of the send queue: a payload (send) or a future (drain)
Payload(n) == [kind |-> "data", id |-> n]
Future(n) == [kind |-> "future", id |-> n]
NoItem == [kind |-> "-", id |-> 0]

\* ------------------------------------------------------------------- state
\* The fields the tasks and callbacks work on, as one value.
State ==
    [is_enabled |-> is_enabled,
     receive_queue |-> receive_queue,
     receive_queue_closed |-> receive_queue_closed,
     send_queue |-> send_queue,
     send_queue_closed |-> send_queue_closed,
     test_event |-> test_event,
     ssn |-> ssn, rsn |-> rsn, ack |-> ack, w |-> w,
     supervisory_handle |-> supervisory_handle,
     supervisory_timers |-> supervisory_timers,
     waiting_ack_handles |-> waiting_ack_handles,
     live_handles |-> live_handles,
     notified |-> notified,
     closing |-> closing,
     read_pc |-> read_pc, write_pc |-> write_pc, asdu |-> asdu,
     test_pc |-> test_pc,
     futures |-> futures,
     wire |-> wire,
     accepted |-> accepted,
     suspended |-> suspended,
     discarded |-> discarded,
     exc |-> "-"]

Becomes(s) ==
    /\ is_enabled' = s.is_enabled
    /\ receive_queue' = s.receive_queue
    /\ receive_queue_closed' = s.receive_queue_closed
    /\ send_queue' = s.send_queue
    /\ send_queue_closed' = s.send_queue_closed
    /\ test_event' = s.test_event
    /\ ssn' = s.ssn
    /\ rsn' = s.rsn
    /\ ack' = s.ack
    /\ w' = s.w
    /\ supervisory_handle' = s.supervisory_handle
    /\ supervisory_timers' = s.supervisory_timers
    /\ waiting_ack_handles' = s.waiting_ack_handles
    /\ live_handles' = s.live_handles
    /\ notified' = s.notified
    /\ closing' = s.closing
    /\ read_pc' = s.read_pc
    /\ write_pc' = s.write_pc
    /\ asdu' = s.asdu
    /\ test_pc' = s.test_pc
    /\ futures' = s.futures
    /\ wire' = s.wire
    /\ accepted' = s.accepted
    /\ suspended' = s.suspended
    /\ discarded' = s.discarded

\* what a step of the connection itself leaves alone
Config == <<connect_pc, always_enabled, send_window_size, receive_window_size>>
Caller == <<nsend, send_result, enabled_at_send, sent_before, received>>

\* ------------------------------------------------------------ construction
\* Connection.__init__, by connect() (always_enabled) or Server._on_connection
Init ==
    /\ always_enabled \in BOOLEAN
    /\ connect_pc = IF always_enabled THEN "connected" ELSE "listen"
    /\ is_enabled = always_enabled
    /\ send_window_size \in 1..MaxSendWindow
    /\ receive_window_size \in 1..MaxReceiveWindow
    /\ receive_queue = <<>>
    /\ receive_queue_closed = FALSE
    /\ send_queue = <<>>
    /\ send_queue_closed = FALSE
    /\ test_event = FALSE
    /\ ssn \in StartSeqs
    /\ rsn = ssn
    /\ ack = ssn
    /\ w = 0
    /\ supervisory_handle = FALSE
    /\ supervisory_timers = 0
    /\ waiting_ack_handles = {}
    /\ live_handles = {}
    /\ notified = FALSE
    /\ closing = FALSE
    /\ read_pc = "read"
    /\ write_pc = "get"
    /\ asdu = NoItem
    /\ test_pc = "sleep"
    /\ futures = <<>>
    /\ wire = <<>>
    /\ apdu = NoApdu
    /\ nsend = 0
    /\ nread = 0
    /\ ntest = 0
    /\ send_result = "-"
    /\ enabled_at_send = <<>>
    /\ sent_before = <<>>
    /\ accepted = <<>>
    /\ received = <<>>
    /\ suspended = {}
    /\ discarded = {}

\* ----------------------------------------------------------------- helpers
\* aio.Resource.close(): closes the async group (idempotent)
close(s) ==
    IF s.closing THEN s ELSE [s EXCEPT !.closing = TRUE]

\* _write_apdu(conn, apdu): encoder.encode + conn.write
write_apdu(s, frame) ==
    IF s.closing
    THEN [s EXCEPT !.exc = "ConnectionError"]
    ELSE [s EXCEPT !.wire = Append(@, frame)]

\* start_supervisory_timeout without the check for an armed handle
start_supervisory_timeout_again(s) ==
    [s EXCEPT !.supervisory_handle = TRUE, !.supervisory_timers = @ + 1]

\* Connection._start_supervisory_timeout
start_supervisory_timeout(s) ==
    IF s.supervisory_handle
    THEN s
    ELSE [s EXCEPT !.supervisory_handle = TRUE, !.supervisory_timers = @ + 1]

\* Connection._stop_supervisory_timeout
stop_supervisory_timeout(s) ==
    IF ~s.supervisory_handle
    THEN s
    ELSE [s EXCEPT !.supervisory_handle = FALSE, !.supervisory_timers = @ - 1]

\* ------------------------------------------------------------- ack-advance
\* ssns_len of chain(range(a, 0x8000)) alone: the interval ends at the wrap
ssns_len_to_wrap(a, r) ==
    IF r >= a THEN r - a ELSE SeqMod - a

\* ssns_len of an interval that includes its upper end
ssns_len_inclusive(a, r) ==
    IF r >= a THEN r - a + 1 ELSE (SeqMod - a) + r + 1

\* _set_ack: number of elements of `ssns`
ssns_len(a, r) ==
    IF r >= a THEN r - a ELSE (SeqMod - a) + r

\* _set_ack: element i (from 0) of `ssns`: range(a, r), or
\* chain(range(a, 0x8000), range(r))
ssns_at(a, r, i) ==
    IF r >= a
    THEN a + i
    ELSE IF i < SeqMod - a THEN a + i ELSE i - (SeqMod - a)

\* _set_ack: the for loop over ssns, from element i on
RECURSIVE set_ack_for(_, _, _, _)
set_ack_for(s, a, r, i) ==
    IF i >= ssns_len(a, r)
    THEN s
    ELSE LET n == ssns_at(a, r, i)
         IN IF n \notin s.waiting_ack_handles
            THEN [s EXCEPT !.exc = "Exception"]
            ELSE set_ack_for([s EXCEPT !.waiting_ack_handles = @ \ {n},
                                       !.live_handles = @ \ {n}],
                             a, r, i + 1)

\* set_ack that releases the entries and leaves ack where it was
set_ack_stale(s, r) ==
    LET s1 == set_ack_for(s, s.ack, r, 0)
    IN IF s1.exc # "-"
       THEN s1
       ELSE [s1 EXCEPT !.notified = @ \/ (s1.write_pc = "wait_for")]

\* set_ack without notify_all on the condition
set_ack_silent(s, r) ==
    LET s1 == set_ack_for(s, s.ack, r, 0)
    IN IF s1.exc # "-" THEN s1 ELSE [s1 EXCEPT !.ack = r]

\* Connection._set_ack
set_ack(s, r) ==
    LET s1 == set_ack_for(s, s.ack, r, 0)
    IN IF s1.exc # "-"
       THEN s1
       ELSE [s1 EXCEPT !.ack = r,
                       !.notified = @ \/ (s1.write_pc = "wait_for")]

\* ------------------------------------------------------------------ reader
\* process_apduu that confirms STOPDT before it flushes the acknowledgement
process_apduu_confirm_first(s, a) ==
    IF a.function = "STARTDT_ACT"
    THEN write_apdu([s EXCEPT !.is_enabled = TRUE], APDUU("STARTDT_CON"))
    ELSE IF a.function = "STOPDT_ACT"
    THEN IF ~always_enabled
         THEN LET s1 == write_apdu([s EXCEPT !.is_enabled = FALSE],
                                   APDUU("STOPDT_CON"))
              IN stop_supervisory_timeout(
                     [write_apdu(s1, APDUS(s.rsn)) EXCEPT !.w = 0])
         ELSE s
    ELSE IF a.function = "TESTFR_ACT"
    THEN write_apdu(s, APDUU("TESTFR_CON"))
    ELSE IF a.function = "TESTFR_CON"
    THEN [s EXCEPT !.test_event = TRUE]
    ELSE s

\* process_apduu that honours STOPDT_ACT whatever always_enabled
process_apduu_any_role(s, a) ==
    IF a.function = "STARTDT_ACT"
    THEN write_apdu([s EXCEPT !.is_enabled = TRUE], APDUU("STARTDT_CON"))
    ELSE IF a.function = "STOPDT_ACT"
    THEN LET s1 == write_apdu(s, APDUS(s.rsn))
             s2 == stop_supervisory_timeout([s1 EXCEPT !.w = 0])
         IN write_apdu([s2 EXCEPT !.is_enabled = FALSE], APDUU("STOPDT_CON"))
    ELSE IF a.function = "TESTFR_ACT"
    THEN write_apdu(s, APDUU("TESTFR_CON"))
    ELSE IF a.function = "TESTFR_CON"
    THEN [s EXCEPT !.test_event = TRUE]
    ELSE s

\* Connection._process_apduu
process_apduu(s, a) ==
    IF a.function = "STARTDT_ACT"
    THEN write_apdu([s EXCEPT !.is_enabled = TRUE], APDUU("STARTDT_CON"))
    ELSE IF a.function = "STOPDT_ACT"
    THEN IF ~always_enabled
         THEN LET s1 == write_apdu(s, APDUS(s.rsn))
                  s2 == stop_supervisory_timeout([s1 EXCEPT !.w = 0])
              IN IF s1.exc # "-"
                 THEN s1
                 ELSE write_apdu([s2 EXCEPT !.is_enabled = FALSE],
                                 APDUU("STOPDT_CON"))
         ELSE s
    ELSE IF a.function = "TESTFR_ACT"
    THEN write_apdu(s, APDUU("TESTFR_CON"))
    ELSE IF a.function = "TESTFR_CON"
    THEN [s EXCEPT !.test_event = TRUE]
    ELSE s

\* Connection._process_apdus
process_apdus(s, a) == set_ack(s, a.rsn)

\* receive_window that acknowledges one frame late: w > receive_window_size
receive_window_late(s) ==
    LET s1 == [s EXCEPT !.w = @ + 1]
        s2 == write_apdu(s1, APDUS(s1.rsn))
    IN IF s1.w > receive_window_size
       THEN IF s2.exc # "-"
            THEN s2
            ELSE stop_supervisory_timeout([s2 EXCEPT !.w = 0])
       ELSE s1

\* _process_apdui: the receive window, after the payload was queued
receive_window(s) ==
    LET s1 == [s EXCEPT !.w = @ + 1]
        s2 == write_apdu(s1, APDUS(s1.rsn))
    IN IF s1.w >= receive_window_size
       THEN IF s2.exc # "-"
            THEN s2
            ELSE stop_supervisory_timeout([s2 EXCEPT !.w = 0])
       ELSE s1

\* deliver as a queue that puts the new payload first
deliver_first(s, a) ==
    IF a.data # 0
    THEN [s EXCEPT !.receive_queue = <<a.data>> \o @]
    ELSE s

\* _process_apdui: self._receive_queue.put_nowait(apdu.data) if apdu.data
deliver(s, a) ==
    IF a.data # 0
    THEN IF s.receive_queue_closed
         THEN [s EXCEPT !.exc = "QueueClosedError"]
         ELSE [s EXCEPT !.receive_queue = Append(@, a.data)]
    ELSE s

\* process_apdui without the comparison of apdu.ssn and rsn
process_apdui_any(s, a) ==
    LET s1 == set_ack(s, a.rsn)
    IN IF s1.exc # "-"
       THEN s1
       ELSE LET s2 == start_supervisory_timeout(
                          [s1 EXCEPT !.rsn = (@ + 1) % SeqMod,
                                     !.accepted = Append(@, a.data)])
                s3 == deliver(s2, a)
            IN IF s3.exc # "-" THEN s3 ELSE receive_window(s3)

\* Connection._process_apdui
process_apdui(s, a) ==
    LET s1 == set_ack(s, a.rsn)
    IN IF s1.exc # "-"
       THEN s1
       ELSE IF a.ssn # s1.rsn
       THEN [s1 EXCEPT !.exc = "Exception"]
       ELSE LET s2 == start_supervisory_timeout(
                          [s1 EXCEPT !.rsn = (@ + 1) % SeqMod,
                                     !.accepted = Append(@, a.data)])
                s3 == deliver(s2, a)
            IN IF s3.exc # "-" THEN s3 ELSE receive_window(s3)

\* _read_loop: the finally block
read_finally(s) ==
    [close(s) EXCEPT !.receive_queue_closed = TRUE, !.read_pc = "done", !.exc = "-"]

\* _read_loop: one APDU read and dispatched by its class
read_loop(s, a) ==
    LET s1 == IF a.type = "U" THEN process_apduu(s, a)
              ELSE IF a.type = "S" THEN process_apdus(s, a)
              ELSE process_apdui(s, a)
    IN IF s1.exc # "-" THEN read_finally(s1) ELSE s1

\* sequence numbers the peer may put in a frame: around the connection's own
NRs == {ack, (ack + 1) % SeqMod, ssn, (ssn + 1) % SeqMod,
        (ack + SeqMod - 1) % SeqMod}
NSs == {rsn, (rsn + 1) % SeqMod}

\* the APDUs _read_apdu may return; an I-frame's data is empty (0) or carries
\* the number of the frame
Inbound ==
    {APDUU(f) : f \in ApduFunction}
    \cup {APDUS(r) : r \in NRs}
    \cup {APDUI(s, r, d) : s \in NSs, r \in NRs, d \in {0, nread + 1}}

\* _read_loop reads APDU a and processes it up to its next read
Read(a) ==
    /\ read_pc = "read"
    /\ ~closing
    /\ nread < MaxRead
    /\ events < MaxEvents
    /\ a \in Inbound
    /\ apdu' = a
    /\ Becomes(read_loop(State, a))
    /\ nread' = nread + 1
    /\ UNCHANGED <<Config, Caller, ntest>>

ReadApdu == \E a \in Inbound : Read(a)

\* the peer closes the TCP stream: readexactly raises ConnectionError
ReadConnectionError ==
    /\ read_pc = "read"
    /\ ~closing
    /\ Becomes(read_finally([State EXCEPT !.exc = "ConnectionError"]))
    /\ UNCHANGED <<Config, Caller, apdu, nread, ntest>>

\* ------------------------------------------------------------------ timers
\* Connection._on_response_timeout, for the timer armed for ssn n
ResponseTimeout(n) ==
    /\ n \in live_handles
    /\ Becomes(close([State EXCEPT !.live_handles = @ \ {n}]))
    /\ UNCHANGED <<Config, Caller, apdu, nread, ntest>>

\* a response timer fires
ResponseTimeouts == \E n \in live_handles : ResponseTimeout(n)

\* on_supervisory_timeout that writes S(rsn) and leaves w
on_supervisory_timeout_keep(s, dropped) ==
    LET s1 == [s EXCEPT !.supervisory_handle = FALSE,
                        !.supervisory_timers = @ - 1]
        s2 == write_apdu(s1, APDUS(s1.rsn))
    IN [s2 EXCEPT !.exc = "-"]

\* Connection._on_supervisory_timeout
on_supervisory_timeout(s, dropped) ==
    LET s1 == [s EXCEPT !.supervisory_handle = FALSE,
                        !.supervisory_timers = @ - 1]
        s2 == write_apdu(s1, APDUS(s1.rsn))
    IN IF s2.exc # "-" /\ ~dropped
       THEN [s2 EXCEPT !.exc = "-"]
       ELSE [s2 EXCEPT !.w = 0, !.exc = "-"]

\* the supervisory timer fires; on a closing connection the write either
\* raises or is dropped
SupervisoryTimeout ==
    /\ supervisory_handle
    /\ \E dropped \in BOOLEAN :
        Becomes(on_supervisory_timeout(State, dropped))
    /\ UNCHANGED <<Config, Caller, apdu, nread, ntest>>

\* ------------------------------------------------------------------ writer
\* write_finally without self._send_queue.close()
write_finally_open(s) ==
    LET s1 == stop_supervisory_timeout(close(s))
    IN [s1 EXCEPT
           !.live_handles = {},
           !.futures = [d \in DOMAIN s1.futures |->
                           IF /\ s1.futures[d] = "pending"
                              /\ \E i \in DOMAIN s1.send_queue :
                                     s1.send_queue[i] = Future(d)
                           THEN "exception"
                           ELSE s1.futures[d]],
           !.send_queue = <<>>,
           !.write_pc = "done",
           !.asdu = NoItem,
           !.exc = "-"]

\* write_finally that empties the queue without failing the drain markers
write_finally_pending(s) ==
    LET s1 == stop_supervisory_timeout(close(s))
    IN [s1 EXCEPT
           !.send_queue_closed = TRUE,
           !.live_handles = {},
           !.send_queue = <<>>,
           !.write_pc = "done",
           !.asdu = NoItem,
           !.exc = "-"]

\* _write_loop: the finally block
write_finally(s) ==
    LET s1 == stop_supervisory_timeout(close(s))
    IN [s1 EXCEPT
           !.send_queue_closed = TRUE,
           !.live_handles = {},
           !.futures = [d \in DOMAIN s1.futures |->
                           IF /\ s1.futures[d] = "pending"
                              /\ \E i \in DOMAIN s1.send_queue :
                                     s1.send_queue[i] = Future(d)
                           THEN "exception"
                           ELSE s1.futures[d]],
           !.send_queue = <<>>,
           !.write_pc = "done",
           !.asdu = NoItem,
           !.exc = "-"]

\* window_open off by one: admits a frame into a full window
window_open_full(s) ==
    Cardinality(s.waiting_ack_handles) <= send_window_size

\* _write_loop: the wait_for predicate
window_open(s) ==
    Cardinality(s.waiting_ack_handles) < send_window_size

\* _write_loop: a drain marker taken from the queue
set_result(s, d) ==
    IF s.futures[d] = "pending"
    THEN [s EXCEPT !.futures[d] = "result"]
    ELSE s

\* emit that registers the ssn without arming a response timer
emit_untimed(s, item) ==
    LET s1 == write_apdu(s, APDUI(s.ssn, s.rsn, item.id))
        s2 == stop_supervisory_timeout([s1 EXCEPT !.w = 0])
    IN IF s1.exc # "-"
       THEN s1
       ELSE [s2 EXCEPT !.waiting_ack_handles = @ \cup {s.ssn},
                       !.ssn = (@ + 1) % SeqMod]

\* _write_loop: the I-frame, its response timer and the next ssn
emit(s, item) ==
    LET s1 == write_apdu(s, APDUI(s.ssn, s.rsn, item.id))
        s2 == stop_supervisory_timeout([s1 EXCEPT !.w = 0])
    IN IF s1.exc # "-"
       THEN s1
       ELSE [s2 EXCEPT !.waiting_ack_handles = @ \cup {s.ssn},
                       !.live_handles = @ \cup {s.ssn},
                       !.ssn = (@ + 1) % SeqMod]

\* _write_loop: the loop, from the top (write_loop) and from the end of
\* wait_for with the payload in hand (write_payload), up to the next suspension
RECURSIVE write_loop(_), write_payload(_, _)
\* write_payload without the is_enabled check
write_payload_always(s, item) ==
    LET s1 == emit(s, item)
    IN IF s1.exc # "-" THEN write_finally(s1) ELSE write_loop(s1)

write_payload(s, item) ==
    IF ~s.is_enabled
    THEN write_loop([s EXCEPT !.discarded = @ \cup {item.id}])
    ELSE LET s1 == emit(s, item)
         IN IF s1.exc # "-" THEN write_finally(s1) ELSE write_loop(s1)

write_loop(s) ==
    IF s.send_queue = <<>>
    THEN [s EXCEPT !.write_pc = "get", !.asdu = NoItem]
    ELSE LET item == Head(s.send_queue)
             s1 == [s EXCEPT !.send_queue = Tail(@)]
         IN IF item.kind = "future"
            THEN write_loop(set_result(s1, item.id))
            ELSE IF s1.ssn \in s1.waiting_ack_handles
            THEN write_finally([s1 EXCEPT !.exc = "Exception"])
            ELSE IF window_open(s1)
            THEN write_payload(s1, item)
            ELSE [s1 EXCEPT !.write_pc = "wait_for", !.asdu = item,
                            !.notified = FALSE,
                            !.suspended = @ \cup {item.id}]

\* _write_loop: woken in wait_for, it evaluates the predicate again
wait_for(s) ==
    IF window_open(s)
    THEN write_payload([s EXCEPT !.notified = FALSE, !.asdu = NoItem], s.asdu)
    ELSE [s EXCEPT !.notified = FALSE]

\* the send queue has an item: _write_loop runs from get() to its next
\* suspension
WriteGet ==
    /\ write_pc = "get"
    /\ ~closing
    /\ send_queue # <<>>
    /\ Becomes(write_loop(State))
    /\ UNCHANGED <<Config, Caller, apdu, nread, ntest>>

\* _set_ack notified the condition: _write_loop runs from wait_for on
WriteNotified ==
    /\ write_pc = "wait_for"
    /\ ~closing
    /\ notified
    /\ Becomes(wait_for(State))
    /\ UNCHANGED <<Config, Caller, apdu, nread, ntest>>

\* ------------------------------------------------------------------ tester
\* _test_loop: the finally block
test_finally(s) == [close(s) EXCEPT !.test_pc = "done"]

\* TestSleep without self._test_event.clear()
TestSleepKeep ==
    /\ test_pc = "sleep"
    /\ ~closing
    /\ ntest < MaxTest
    /\ events < MaxEvents
    /\ Becomes([write_apdu(State, APDUU("TESTFR_ACT"))
                   EXCEPT !.test_pc = "wait"])
    /\ ntest' = ntest + 1
    /\ UNCHANGED <<Config, Caller, apdu, nread>>

\* _test_loop: sleep(test_timeout) is over: clear the event, send TESTFR_ACT
TestSleep ==
    /\ test_pc = "sleep"
    /\ ~closing
    /\ ntest < MaxTest
    /\ events < MaxEvents
    /\ Becomes([write_apdu([State EXCEPT !.test_event = FALSE],
                           APDUU("TESTFR_ACT"))
                   EXCEPT !.test_pc = "wait"])
    /\ ntest' = ntest + 1
    /\ UNCHANGED <<Config, Caller, apdu, nread>>

\* _test_loop: the event was set while it waited for it
TestEvent ==
    /\ test_pc = "wait"
    /\ ~closing
    /\ test_event
    /\ Becomes([State EXCEPT !.test_pc = "sleep"])
    /\ UNCHANGED <<Config, Caller, apdu, nread, ntest>>

\* _test_loop: wait_for(test_event.wait(), response_timeout) times out
TestTimeout ==
    /\ test_pc = "wait"
    /\ ~closing
    /\ ~test_event
    /\ Becomes(test_finally(State))
    /\ UNCHANGED <<Config, Caller, apdu, nread, ntest>>

\* ------------------------------------------------------------ cancellation
\* The closing async group cancels the tasks that still run. The event loop
\* resumes them one after the other, each into its finally block, and runs
\* nothing else in between.
cancelled(s) ==
    LET s1 == IF s.read_pc # "done" THEN read_finally(s) ELSE s
        s2 == IF s1.write_pc # "done" THEN write_finally(s1) ELSE s1
    IN IF s2.test_pc # "done" THEN test_finally(s2) ELSE s2

Cancelled ==
    /\ closing
    /\ read_pc # "done" \/ write_pc # "done" \/ test_pc # "done"
    /\ Becomes(cancelled(State))
    /\ UNCHANGED <<Config, Caller, apdu, nread, ntest>>

\* ------------------------------------------------------------------ caller
Connection == <<is_enabled, receive_queue_closed, send_queue_closed,
                test_event, ssn, rsn, ack, w, supervisory_handle,
                supervisory_timers,
                waiting_ack_handles, live_handles, notified, read_pc,
                write_pc, asdu, test_pc, wire, apdu, nread, ntest, accepted,
                suspended, discarded>>

\* Send as a queue that puts the new payload first
SendFirst ==
    /\ nsend < MaxSend
    /\ events < MaxEvents
    /\ nsend' = nsend + 1
    /\ enabled_at_send' = Append(enabled_at_send, is_enabled)
    /\ send_result' = "ok"
    /\ send_queue' = <<Payload(nsend + 1)>> \o send_queue
    /\ UNCHANGED <<Config, Connection, closing, futures, sent_before,
                   receive_queue, received>>

\* Connection.send(data): data is the number of the call
Send ==
    /\ nsend < MaxSend
    /\ events < MaxEvents
    /\ nsend' = nsend + 1
    /\ enabled_at_send' = Append(enabled_at_send, is_enabled)
    /\ IF send_queue_closed
       THEN /\ send_result' = "ConnectionError"
            /\ UNCHANGED send_queue
       ELSE /\ send_result' = "ok"
            /\ send_queue' = Append(send_queue, Payload(nsend + 1))
    /\ UNCHANGED <<Config, Connection, closing, futures, sent_before,
                   receive_queue, received>>

\* Drain as a queue that puts the marker first
DrainFirst ==
    /\ Len(futures) < MaxDrain
    /\ events < MaxEvents
    /\ sent_before' = Append(sent_before, nsend)
    /\ futures' = Append(futures, "pending")
    /\ send_queue' = <<Future(Len(futures) + 1)>> \o send_queue
    /\ UNCHANGED <<Config, Connection, closing, nsend, send_result, enabled_at_send,
                   receive_queue, received>>

\* Connection.drain(): up to `await future`
Drain ==
    /\ Len(futures) < MaxDrain
    /\ events < MaxEvents
    /\ sent_before' = Append(sent_before, nsend)
    /\ IF send_queue_closed
       THEN /\ futures' = Append(futures, "unqueued")
            /\ UNCHANGED send_queue
       ELSE /\ futures' = Append(futures, "pending")
            /\ send_queue' = Append(send_queue, Future(Len(futures) + 1))
    /\ UNCHANGED <<Config, Connection, closing, nsend, send_result, enabled_at_send,
                   receive_queue, received>>

\* Connection.receive() returns an item of the receive queue
Receive ==
    /\ receive_queue # <<>>
    /\ received' = Append(received, Head(receive_queue))
    /\ receive_queue' = Tail(receive_queue)
    /\ UNCHANGED <<Config, Connection, closing, futures, sent_before,
                   send_queue, nsend, send_result, enabled_at_send>>

\* the caller closes the connection (aio.Resource.close)
Close ==
    /\ ~closing
    /\ Becomes(close(State))
    /\ UNCHANGED <<Config, Caller, apdu, nread, ntest>>

\* ------------------------------------------------------------ specification
Next ==
    \/ ReadApdu
    \/ ReadConnectionError
    \/ ResponseTimeouts
    \/ SupervisoryTimeout
    \/ WriteGet
    \/ WriteNotified
    \/ TestSleep
    \/ TestEvent
    \/ TestTimeout
    \/ Cancelled
    \/ Send
    \/ Drain
    \/ Receive
    \/ Close

Spec == Init /\ [][Next]_vars

\* The event loop runs every callback and task that is ready, and a timer
\* that stays armed fires. The caller and the peer are under no obligation.
Fairness ==
    /\ WF_vars(WriteGet)
    /\ WF_vars(WriteNotified)
    /\ WF_vars(TestEvent)
    /\ WF_vars(TestTimeout)
    /\ WF_vars(Cancelled)
    /\ WF_vars(SupervisoryTimeout)
    /\ WF_vars(ResponseTimeouts)

FairSpec == Spec /\ Fairness

\* -------------------------------------------------------------------- wrap
\* A connection that has exchanged and acknowledged 0x7FFE I-frames in both
\* directions, with a send window of up to MaxWrapWindow frames.
WrapInit ==
    /\ always_enabled \in BOOLEAN
    /\ connect_pc = IF always_enabled THEN "connected" ELSE "listen"
    /\ is_enabled = always_enabled
    /\ send_window_size \in 1..MaxWrapWindow
    /\ receive_window_size \in 1..MaxReceiveWindow
    /\ receive_queue = <<>>
    /\ receive_queue_closed = FALSE
    /\ send_queue = <<>>
    /\ send_queue_closed = FALSE
    /\ test_event = FALSE
    /\ ssn = SeqMod - 2
    /\ rsn = ssn
    /\ ack = ssn
    /\ w = 0
    /\ supervisory_handle = FALSE
    /\ supervisory_timers = 0
    /\ waiting_ack_handles = {}
    /\ live_handles = {}
    /\ notified = FALSE
    /\ closing = FALSE
    /\ read_pc = "read"
    /\ write_pc = "get"
    /\ asdu = NoItem
    /\ test_pc = "sleep"
    /\ futures = <<>>
    /\ wire = <<>>
    /\ apdu = NoApdu
    /\ nsend = 0
    /\ nread = 0
    /\ ntest = 0
    /\ send_result = "-"
    /\ enabled_at_send = <<>>
    /\ sent_before = <<>>
    /\ accepted = <<>>
    /\ received = <<>>
    /\ suspended = {}
    /\ discarded = {}

\* Connection.send(data), up to MaxWrapSend calls
WrapSend ==
    /\ nsend < MaxWrapSend
    /\ events < MaxEvents
    /\ nsend' = nsend + 1
    /\ enabled_at_send' = Append(enabled_at_send, is_enabled)
    /\ IF send_queue_closed
       THEN /\ send_result' = "ConnectionError"
            /\ UNCHANGED send_queue
       ELSE /\ send_result' = "ok"
            /\ send_queue' = Append(send_queue, Payload(nsend + 1))
    /\ UNCHANGED <<Config, Connection, closing, futures, sent_before,
                   receive_queue, received>>

WrapNext ==
    \/ ReadApdu
    \/ ReadConnectionError
    \/ ResponseTimeouts
    \/ SupervisoryTimeout
    \/ WriteGet
    \/ WriteNotified
    \/ TestSleep
    \/ TestEvent
    \/ TestTimeout
    \/ Cancelled
    \/ WrapSend
    \/ Drain
    \/ Receive
    \/ Close

WrapSpec == WrapInit /\ [][WrapNext]_vars

\* --------------------------------------------------------------- handshake
\* what connect() leaves alone until it constructs the Connection
Fields == <<always_enabled, is_enabled, send_window_size, receive_window_size,
            receive_queue, receive_queue_closed, send_queue,
            send_queue_closed, test_event, ssn, rsn, ack, w,
            supervisory_handle, supervisory_timers, waiting_ack_handles,
            live_handles, notified,
            asdu, futures, nsend, ntest, send_result, enabled_at_send, sent_before,
            accepted,
            received, suspended, discarded>>

\* connect() after tcp.connect(addr) returned: the arguments are chosen, no
\* Connection exists and no task runs
ConnectInit ==
    /\ connect_pc = "tcp_connect"
    /\ always_enabled = TRUE
    /\ is_enabled = TRUE
    /\ send_window_size \in 1..MaxSendWindow
    /\ receive_window_size \in 1..MaxReceiveWindow
    /\ receive_queue = <<>>
    /\ receive_queue_closed = FALSE
    /\ send_queue = <<>>
    /\ send_queue_closed = FALSE
    /\ test_event = FALSE
    /\ ssn = 0
    /\ rsn = 0
    /\ ack = 0
    /\ w = 0
    /\ supervisory_handle = FALSE
    /\ supervisory_timers = 0
    /\ waiting_ack_handles = {}
    /\ live_handles = {}
    /\ notified = FALSE
    /\ closing = FALSE
    /\ read_pc = "-"
    /\ write_pc = "-"
    /\ asdu = NoItem
    /\ test_pc = "-"
    /\ futures = <<>>
    /\ wire = <<>>
    /\ apdu = NoApdu
    /\ nsend = 0
    /\ nread = 0
    /\ ntest = 0
    /\ send_result = "-"
    /\ enabled_at_send = <<>>
    /\ sent_before = <<>>
    /\ accepted = <<>>
    /\ received = <<>>
    /\ suspended = {}
    /\ discarded = {}

\* wait_startdt_con that returns on any confirmation
wait_startdt_con_any(frames, a) ==
    IF a.type # "U"
    THEN [wire |-> frames, returned |-> FALSE]
    ELSE IF a.function \in {"STARTDT_CON", "STOPDT_CON", "TESTFR_CON"}
    THEN [wire |-> frames, returned |-> TRUE]
    ELSE IF a.function = "TESTFR_ACT"
    THEN [wire |-> write_apdu([State EXCEPT !.wire = frames],
                              APDUU("TESTFR_CON")).wire,
          returned |-> FALSE]
    ELSE [wire |-> frames, returned |-> FALSE]

\* _wait_startdt_con: one pass of the loop on APDU a, with `frames` written
\* so far
wait_startdt_con(frames, a) ==
    IF a.type # "U"
    THEN [wire |-> frames, returned |-> FALSE]
    ELSE IF a.function = "STARTDT_CON"
    THEN [wire |-> frames, returned |-> TRUE]
    ELSE IF a.function = "TESTFR_ACT"
    THEN [wire |-> write_apdu([State EXCEPT !.wire = frames],
                              APDUU("TESTFR_CON")).wire,
          returned |-> FALSE]
    ELSE [wire |-> frames, returned |-> FALSE]

\* connect(): _write_apdu(conn, APDUU(STARTDT_ACT))
ConnectStart ==
    /\ connect_pc = "tcp_connect"
    /\ wire' = write_apdu(State, APDUU("STARTDT_ACT")).wire
    /\ connect_pc' = "wait_startdt_con"
    /\ UNCHANGED <<Fields, apdu, nread, closing, read_pc, write_pc, test_pc>>

\* _wait_startdt_con reads APDU a; when it returns, connect() constructs the
\* Connection, which starts its three tasks
ConnectRead(a) ==
    /\ connect_pc = "wait_startdt_con"
    /\ nread < MaxHandshake
    /\ a \in Inbound
    /\ apdu' = a
    /\ nread' = nread + 1
    /\ wire' = wait_startdt_con(wire, a).wire
    /\ IF wait_startdt_con(wire, a).returned
       THEN /\ connect_pc' = "connected"
            /\ read_pc' = "read"
            /\ write_pc' = "get"
            /\ test_pc' = "sleep"
       ELSE UNCHANGED <<connect_pc, read_pc, write_pc, test_pc>>
    /\ UNCHANGED <<Fields, closing>>

ConnectReadApdu == \E a \in Inbound : ConnectRead(a)

\* aio.wait_for(_wait_startdt_con(conn), response_timeout) times out:
\* conn.async_close() and raise
ConnectTimeout ==
    /\ connect_pc = "wait_startdt_con"
    /\ closing' = TRUE
    /\ connect_pc' = "failed"
    /\ UNCHANGED <<Fields, wire, apdu, nread, read_pc, write_pc, test_pc>>

\* the peer closes the TCP stream: _read_apdu raises ConnectionError,
\* conn.async_close() and raise
ConnectReadError ==
    /\ connect_pc = "wait_startdt_con"
    /\ closing' = TRUE
    /\ connect_pc' = "failed"
    /\ apdu' = NoApdu
    /\ UNCHANGED <<Fields, wire, nread, read_pc, write_pc, test_pc>>

ConnectNext ==
    \/ ConnectStart
    \/ ConnectReadApdu
    \/ ConnectTimeout
    \/ ConnectReadError

ConnectSpec == ConnectInit /\ [][ConnectNext]_vars

\* ----------------------------------------------------------- observations
\* the I-frames of a sequence of APDUs, in order
IFrames(frames) == SelectSeq(frames, LAMBDA f : f.type = "I")

\* the payloads of the I-frames written to the TCP stream, in order
WirePayloads == [i \in DOMAIN IFrames(wire) |-> IFrames(wire)[i].data]

\* the payloads of the I-frames written to the TCP stream
WireIds == {WirePayloads[i] : i \in DOMAIN WirePayloads}

\* (s - a) mod 2^15: how far s is ahead of a
Distance(a, s) == (s - a + SeqMod) % SeqMod

\* the sequence numbers of the modular interval [a, s)
Interval(a, s) == {(a + i) % SeqMod : i \in 0..(Distance(a, s) - 1)}

\* the frames written to the TCP stream that carry an N_R, in order
AckFrames == SelectSeq(wire, LAMBDA f : f.type \in {"S", "I"})

\* the payloads in the send queue
QueueIds == {send_queue[i].id : i \in {j \in DOMAIN send_queue :
                                          send_queue[j].kind = "data"}}

\* aio.Resource.is_closed: every task of the async group is done
IsClosed == read_pc = "done" /\ write_pc = "done" /\ test_pc = "done"

\* ------------------------------------------------------------------ claims
\* C1: the payloads receive() has returned, followed by those still in the
\* receive queue, are exactly the non-empty payloads of the accepted I-frames
\* in the order of their arrival: none reordered, duplicated or skipped.
C1_ReceiveOrder ==
    received \o receive_queue = SelectSeq(accepted, LAMBDA d : d # 0)

\* C1 witness: an empty and a non-empty I-frame were accepted and receive()
\* returned the non-empty payload
C1_Witness ==
    /\ Len(accepted) = 2
    /\ accepted[1] = 0
    /\ received = <<accepted[2]>>

\* C2: the payloads of the I-frames on the wire are in the order of the
\* send() calls that enqueued them (a payload is the number of its call), each
\* at most once, and each was passed to send().
C2_SendOrder ==
    /\ \A i, j \in DOMAIN WirePayloads :
           i < j => WirePayloads[i] < WirePayloads[j]
    /\ WireIds \subseteq 1..nsend

\* C2 witness: two payloads were written in the order sent
C2_Witness == WirePayloads = <<1, 2>>

\* C6: at most send_window_size entries wait for an acknowledgement, and
\* 0 <= w < receive_window_size.
C6_Windows ==
    /\ Cardinality(waiting_ack_handles) <= send_window_size
    /\ 0 <= w
    /\ w < receive_window_size

\* C6 witness: the send window is full and w is at its largest
C6_Witness ==
    /\ Cardinality(waiting_ack_handles) = send_window_size
    /\ receive_window_size > 1
    /\ w = receive_window_size - 1

\* C3 as stated: when a drain() call has completed successfully, every
\* payload passed to send() before it is on the wire as an I-frame.
C3_DrainAllWritten ==
    \A d \in DOMAIN futures :
        futures[d] = "result" =>
            \A p \in 1..sent_before[d] : p \in WireIds

\* C3 amended: when a drain() call has completed successfully, every payload
\* passed to send() before it has been taken by the writer and written as an
\* I-frame or discarded because is_enabled was false; none is still queued or
\* held by the writer waiting for send-window capacity.
C3_DrainAfterSends ==
    \A d \in DOMAIN futures :
        futures[d] = "result" =>
            \A p \in 1..sent_before[d] :
                /\ p \in WireIds \cup discarded
                /\ p \notin QueueIds
                /\ asdu # Payload(p)

\* C3 witness: drain() completed after the writer had suspended on an earlier
\* payload for window capacity, and both earlier payloads are on the wire
C3_Witness ==
    /\ futures = <<"result">>
    /\ sent_before[1] = 2
    /\ 2 \in suspended
    /\ WirePayloads = <<1, 2>>

\* C4: once the writer has exited the send queue is closed and empty, once the
\* reader has exited the receive queue is closed, and on a closed connection
\* no drain future is pending; a pending future has its marker in the send
\* queue, so it is failed when the writer exits.
C4_Closed ==
    /\ write_pc = "done" => send_queue_closed /\ send_queue = <<>>
    /\ read_pc = "done" => receive_queue_closed /\ closing
    /\ IsClosed => \A d \in DOMAIN futures : futures[d] # "pending"
    /\ \A d \in DOMAIN futures :
           futures[d] = "pending" =>
               \E i \in DOMAIN send_queue : send_queue[i] = Future(d)

\* C4: closing and the closing of either queue are never undone; the next
\* step any task takes after close() leaves the connection closed; from the
\* call of close() on no drain future completes with success, and the step in
\* which the writer exits fails every future that is pending.
C4_Closing ==
    /\ closing => closing'
    /\ closing /\ <<read_pc, write_pc, test_pc>>' # <<read_pc, write_pc, test_pc>>
           => IsClosed'
    /\ send_queue_closed => send_queue_closed'
    /\ receive_queue_closed => receive_queue_closed'
    /\ \A d \in DOMAIN futures :
           /\ closing /\ futures[d] = "pending" => futures'[d] # "result"
           /\ futures[d] = "pending" /\ write_pc' = "done" =>
                  futures'[d] = "exception"

\* C4: termination for any cause fails the pending drain() calls, is
\* irreversible and closes both queues.
C4_Termination == []C4_Closed /\ [][C4_Closing]_vars

\* C4 witness: the connection is closed with a frame unacknowledged, and the
\* drain() call whose marker was queued has failed
C4_Witness ==
    /\ IsClosed
    /\ futures = <<"exception">>
    /\ waiting_ack_handles # {}
    /\ send_queue_closed /\ receive_queue_closed

\* C5: send() is possible whatever the window occupancy and is_enabled; a
\* closed connection holds no payload.
C5_Accepts ==
    /\ nsend < MaxSend /\ events < MaxEvents => ENABLED Send
    /\ IsClosed => send_queue = <<>>

\* C5: a send() call on an open connection enqueues its payload and returns;
\* on a closed connection it raises ConnectionError and enqueues nothing.
C5_Send ==
    nsend' = nsend + 1 =>
        /\ ~closing =>
               /\ send_result' = "ok"
               /\ send_queue' = Append(send_queue, Payload(nsend'))
        /\ IsClosed =>
               /\ send_result' = "ConnectionError"
               /\ send_queue' = send_queue

C7_Notified ==
    write_pc = "wait_for" /\ ~closing /\ window_open(State) => notified

\* C7: no step taken with the send window full writes an I-frame; the step
\* in which the notified writer resumes writes the payload it holds if the
\* window has capacity and the endpoint is enabled, discards it if the
\* endpoint is not enabled, and keeps it if the window is still full.
C7_Resume ==
    /\ Cardinality(waiting_ack_handles) = send_window_size =>
           IFrames(wire') = IFrames(wire)
    /\ write_pc = "wait_for" /\ notified /\ ~notified' =>
           IF ~window_open(State)
           THEN asdu' = asdu /\ write_pc' = "wait_for"
           ELSE IF is_enabled
           THEN asdu.id \in {IFrames(wire')[i].data :
                                i \in DOMAIN IFrames(wire')}
           ELSE asdu.id \in discarded'

\* C7: a full send window holds back every further I-frame, and an
\* acknowledgement of an outstanding frame resumes the suspended writer.
C7_WindowFull == []C7_Notified /\ [][C7_Resume]_vars

\* C7 witness: the writer suspended on the second payload with the first
\* unacknowledged, an S-frame acknowledged the first, and the second is on
\* the wire
C7_Witness ==
    /\ 2 \in suspended
    /\ WirePayloads = <<1, 2>>
    /\ apdu = APDUS(ack)
    /\ waiting_ack_handles = {(ack + 1) % SeqMod} \/ waiting_ack_handles = {ack}

\* C8: on a server endpoint the step that reads STOPDT_ACT writes S(rsn) and
\* then U(STOPDT_CON) and nothing else, and leaves w = 0, the supervisory
\* timer unarmed and is_enabled false; no step taken while is_enabled is
\* false writes an I-frame, and is_enabled becomes true again only in a step
\* that reads STARTDT_ACT.
C8_Stop ==
    /\ nread' = nread + 1 /\ apdu' = APDUU("STOPDT_ACT") /\ ~always_enabled =>
           /\ wire' = wire \o <<APDUS(rsn), APDUU("STOPDT_CON")>>
           /\ rsn' = rsn
           /\ w' = 0
           /\ ~supervisory_handle'
           /\ ~is_enabled'
    /\ ~is_enabled => IFrames(wire') = IFrames(wire)
    /\ ~is_enabled /\ is_enabled' =>
           nread' = nread + 1 /\ apdu' = APDUU("STARTDT_ACT")

\* C8: the STOPDT flow of a server endpoint.
C8_StopDT == [][C8_Stop]_vars

\* C8 witness: a server was started, wrote a payload, was stopped with
\* S(rsn) then U(STOPDT_CON), and discarded the next payload
C8_Witness ==
    /\ ~always_enabled
    /\ Len(wire) = 4
    /\ wire[1] = APDUU("STARTDT_CON")
    /\ wire[2].type = "I" /\ wire[2].data = 1
    /\ wire[3] = APDUS(rsn)
    /\ wire[4] = APDUU("STOPDT_CON")
    /\ discarded = {2}

\* C9: a client endpoint is always enabled, and before anything is read
\* is_enabled is always_enabled (false on a server).
C9_Enabled ==
    /\ always_enabled => is_enabled
    /\ nread = 0 => is_enabled = always_enabled

\* C9: on a client the step that reads STOPDT_ACT writes nothing and leaves
\* w, the supervisory timer and is_enabled as they are; is_enabled changes
\* only on a server, to true reading STARTDT_ACT and to false reading
\* STOPDT_ACT.
C9_Changes ==
    /\ nread' = nread + 1 /\ apdu' = APDUU("STOPDT_ACT") /\ always_enabled =>
           UNCHANGED <<wire, w, supervisory_handle, is_enabled, rsn, ack,
                       closing>>
    /\ is_enabled' # is_enabled =>
           /\ ~always_enabled
           /\ nread' = nread + 1
           /\ \/ is_enabled' /\ apdu' = APDUU("STARTDT_ACT")
              \/ ~is_enabled' /\ apdu' = APDUU("STOPDT_ACT")

\* C9: the enable/disable state machine by role.
C9_AlwaysEnabled == []C9_Enabled /\ [][C9_Changes]_vars

\* C9 witness: a client with an unacknowledged I-frame and its supervisory
\* timer armed has read STOPDT_ACT and is unchanged
C9_Witness ==
    /\ always_enabled
    /\ apdu = APDUU("STOPDT_ACT")
    /\ w = 1
    /\ supervisory_handle
    /\ wire = <<>>
    /\ ~closing

\* C10: on an open connection every unacknowledged I-frame has an armed
\* response timer, and only unacknowledged I-frames have one: an
\* acknowledgement cancels the timer, which then never fires.
C10_Timers ==
    /\ ~closing => waiting_ack_handles \subseteq live_handles
    /\ live_handles \subseteq waiting_ack_handles

\* C10: the step that writes an I-frame arms a response timer for its ssn,
\* and the step in which a response timer fires closes the connection.
C10_Timeout ==
    /\ Len(IFrames(wire')) > Len(IFrames(wire)) =>
           \A i \in (Len(IFrames(wire)) + 1)..Len(IFrames(wire')) :
               IFrames(wire')[i].ssn \in live_handles'
    /\ /\ live_handles' # live_handles
       /\ waiting_ack_handles' = waiting_ack_handles
       /\ write_pc' = write_pc
       => closing'

\* C10: every I-frame written is acknowledged, which cancels its response
\* timer, or its response timer stays armed and closes the connection when
\* it fires.
C10_ResponseTimeout == []C10_Timers /\ [][C10_Timeout]_vars

\* C10 witness: the first I-frame was acknowledged, the response timer of the
\* second fired and the connection is closing
C10_Witness ==
    /\ WirePayloads = <<1, 2>>
    /\ waiting_ack_handles = {ack}
    /\ live_handles = {}
    /\ closing
    /\ write_pc # "done"

\* C11: the step that writes TESTFR_ACT clears test_event, so a TESTFR_CON
\* read before it is forgotten; while the tester waits, test_event is set only
\* by a step that reads TESTFR_CON; the wait times out, and closes the
\* connection, only with test_event clear; with test_event set the tester
\* goes back to sleep and the step closes nothing.
C11_Probe ==
    /\ ntest' = ntest + 1 =>
           /\ wire' = Append(wire, APDUU("TESTFR_ACT"))
           /\ ~test_event'
           /\ test_pc' = "wait"
    /\ test_pc = "wait" /\ ~test_event /\ test_event' =>
           nread' = nread + 1 /\ apdu' = APDUU("TESTFR_CON")
    /\ test_pc = "wait" /\ ~closing /\ test_pc' = "done" =>
           ~test_event /\ closing'
    /\ test_pc = "wait" /\ test_pc' = "sleep" =>
           test_event /\ ~closing /\ ~closing'
    /\ test_pc = "wait" /\ ~closing /\ ~test_event /\ test_pc' = "wait"
       /\ apdu' # APDUU("TESTFR_CON") => ~test_event'

\* C11: a TESTFR_ACT not answered by a later TESTFR_CON closes the
\* connection when its wait times out; an answered one does not.
C11_TestTimeout == [][C11_Probe]_vars

\* C11 witness: a TESTFR_CON was read, then TESTFR_ACT was written, no reply
\* came and the tester closed the connection
C11_Witness ==
    /\ apdu = APDUU("TESTFR_CON")
    /\ nread = 1
    /\ wire = <<APDUU("TESTFR_ACT")>>
    /\ ~test_event
    /\ test_pc = "done"
    /\ read_pc # "done"
    /\ closing

\* C12: the first frame connect() writes is STARTDT_ACT and it reads nothing
\* before; a Connection exists only when the APDU read last is STARTDT_CON;
\* besides STARTDT_ACT the stream holds only TESTFR_CON replies; a failed
\* connect() has closed the TCP stream and has no Connection.
C12_Connected ==
    /\ connect_pc = "tcp_connect" => wire = <<>> /\ nread = 0
    /\ connect_pc # "tcp_connect" =>
           /\ wire # <<>>
           /\ wire[1] = APDUU("STARTDT_ACT")
           /\ \A i \in 2..Len(wire) : wire[i] = APDUU("TESTFR_CON")
    /\ connect_pc = "connected" <=> read_pc = "read"
    /\ connect_pc = "connected" => apdu = APDUU("STARTDT_CON") /\ ~closing
    /\ connect_pc = "failed" <=> closing

\* C12: a step of the handshake that reads TESTFR_ACT writes one TESTFR_CON,
\* a step that reads anything else writes nothing, and only the step that
\* reads STARTDT_CON produces the Connection; the step in which the wait
\* ends without STARTDT_CON closes the TCP stream, and neither outcome of
\* connect() is ever undone.
C12_Step ==
    /\ nread' = nread + 1 =>
           /\ wire' = IF apdu' = APDUU("TESTFR_ACT")
                      THEN Append(wire, APDUU("TESTFR_CON"))
                      ELSE wire
           /\ connect_pc' = IF apdu' = APDUU("STARTDT_CON")
                            THEN "connected"
                            ELSE "wait_startdt_con"
    /\ connect_pc' = "failed" => closing' /\ read_pc' = "-"
    /\ connect_pc \in {"connected", "failed"} => connect_pc' = connect_pc

\* C12: the STARTDT handshake of connect().
C12_Handshake == []C12_Connected /\ [][C12_Step]_vars

\* C12 witness: connect() read TESTFR_ACT, which it answered with TESTFR_CON,
\* and a frame it discarded, then read STARTDT_CON and produced the Connection
C12_Witness ==
    /\ connect_pc = "connected"
    /\ nread = 3
    /\ wire = <<APDUU("STARTDT_ACT"), APDUU("TESTFR_CON")>>

\* C13 as stated: in every reachable state the distance from ack to ssn is
\* strictly less than send_window_size and every sequence number of
\* [ack, ssn) has a live response timer in waiting_ack.
C13_AckWindow ==
    /\ Distance(ack, ssn) < send_window_size
    /\ \A n \in Interval(ack, ssn) :
           n \in waiting_ack_handles /\ n \in live_handles

\* C13 amended: in every reachable state the distance from ack to ssn is at
\* most send_window_size; while close() has not been called the keys of
\* waiting_ack are exactly the sequence numbers of [ack, ssn) and each has a
\* live response timer.
C13_AckInterval ==
    /\ Distance(ack, ssn) <= send_window_size
    /\ ~closing =>
           /\ waiting_ack_handles = Interval(ack, ssn)
           /\ live_handles = waiting_ack_handles

\* C13 witness: an open connection with a full send window of two frames
\* whose sequence numbers are 0x7FFE and 0x7FFF, ssn wrapped to 0
C13_Witness ==
    /\ ~closing
    /\ send_window_size = 2
    /\ ack = SeqMod - 2
    /\ ssn = 0
    /\ waiting_ack_handles = {SeqMod - 2, SeqMod - 1}
    /\ WirePayloads = <<1, 2>>

\* every sequence number of [ack, r) has an entry in waiting_ack
C14_Covered(r) ==
    \A i \in 0..(Distance(ack, r) - 1) :
        (ack + i) % SeqMod \in waiting_ack_handles

\* C14: in the step that reads an S- or I-frame with N_R = r, if every
\* sequence number of the modular interval [ack, r) has an entry in
\* waiting_ack then exactly those entries are removed and their timers
\* cancelled, ack becomes r and a waiting writer is notified (an S-frame
\* then leaves the connection open, and for r = ack nothing of this
\* changes); otherwise the connection is failed in that step and ack stays.
C14_Step ==
    nread' = nread + 1 /\ apdu'.type \in {"S", "I"} =>
        IF C14_Covered(apdu'.rsn)
        THEN /\ waiting_ack_handles' =
                    waiting_ack_handles \ Interval(ack, apdu'.rsn)
             /\ live_handles' = live_handles \ Interval(ack, apdu'.rsn)
             /\ ack' = apdu'.rsn
             /\ write_pc = "wait_for" => notified'
             /\ apdu'.type = "S" => ~closing' /\ read_pc' = "read"
             /\ apdu'.rsn = ack =>
                    UNCHANGED <<ack, ssn, waiting_ack_handles, live_handles>>
        ELSE /\ closing'
             /\ read_pc' = "done"
             /\ ack' = ack
             /\ UNCHANGED <<rsn, w, wire, receive_queue>>

\* C14: the ack-advance of _set_ack.
C14_AckAdvance == [][C14_Step]_vars

\* C14 witness: two frames with sequence numbers 0x7FFE and 0x7FFF were
\* outstanding and an S-frame with N_R = 0 released both across the wrap
C14_Witness ==
    /\ apdu = APDUS(0)
    /\ ack = 0
    /\ ssn = 0
    /\ waiting_ack_handles = {}
    /\ Len(IFrames(wire)) = 2
    /\ IFrames(wire)[1].ssn = SeqMod - 2
    /\ ~closing

\* the entries released so far: frames written and no longer in waiting_ack
C15_Released == Len(IFrames(wire)) - Cardinality(waiting_ack_handles)

\* C15 as stated: when the first frame read moved ack from 0x7FFE to 1, two
\* waiting_ack entries were released.
C15_ReleasesTwo ==
    nread = 1 /\ apdu.rsn = 1 /\ ack = 1 => C15_Released = 2

\* C15 amended: when the first frame read moved ack from 0x7FFE to N_R = 1,
\* exactly three waiting_ack entries were released, those of 0x7FFE, 0x7FFF
\* and 0; when it carried N_R = 1 with only 0x7FFE and 0x7FFF outstanding
\* (ssn = 0) the connection was failed and ack did not move.
C15_ReleasesThree ==
    /\ nread = 1 /\ apdu.rsn = 1 /\ ack = 1 =>
           /\ C15_Released = 3
           /\ waiting_ack_handles \cap {SeqMod - 2, SeqMod - 1, 0} = {}
           /\ {IFrames(wire)[i].ssn : i \in 1..3} = {SeqMod - 2, SeqMod - 1, 0}
    /\ nread = 1 /\ apdu.type \in {"S", "I"} /\ apdu.rsn = 1 /\ ssn = 0 =>
           closing /\ ack = SeqMod - 2

\* C15 witness: three frames 0x7FFE, 0x7FFF and 0 were outstanding and an
\* S-frame with N_R = 1 released them
C15_Witness ==
    /\ nread = 1
    /\ apdu = APDUS(1)
    /\ ack = 1
    /\ ssn = 1
    /\ waiting_ack_handles = {}
    /\ WirePayloads = <<1, 2, 3>>
    /\ ~closing

\* C16: rsn is the sequence number the connection started from plus the
\* number of I-frames accepted, modulo 2^15.
C16_Count ==
    \E n \in StartSeqs : rsn = (n + Len(accepted)) % SeqMod

\* C16: an I-frame is accepted only in the step that reads it and only if its
\* N_S is rsn, and rsn then advances by one modulo 2^15; the step that reads
\* an I-frame whose N_S is not rsn accepts nothing, fails the connection,
\* and leaves rsn, w, the supervisory timer and the receive queue as they
\* were.
C16_Step ==
    /\ accepted' # accepted =>
           /\ nread' = nread + 1
           /\ apdu'.type = "I"
           /\ apdu'.ssn = rsn
           /\ rsn' = (rsn + 1) % SeqMod
           /\ accepted' = Append(accepted, apdu'.data)
    /\ rsn' # rsn => accepted' # accepted
    /\ nread' = nread + 1 /\ apdu'.type = "I" /\ apdu'.ssn # rsn =>
           /\ closing'
           /\ read_pc' = "done"
           /\ accepted' = accepted
           /\ UNCHANGED <<rsn, w, supervisory_handle, receive_queue>>

\* C16: inbound I-frames are accepted in sequence, and a gap fails the
\* connection.
C16_Sequence == []C16_Count /\ [][C16_Step]_vars

\* C16 witness: one I-frame was accepted, then one with N_S = rsn + 1 and a
\* payload was read: the connection is closing, rsn, w and the supervisory
\* timer are as the first frame left them and the payload is not queued
C16_Witness ==
    /\ nread = 2
    /\ Len(accepted) = 1
    /\ apdu.type = "I"
    /\ apdu.ssn = (rsn + 1) % SeqMod
    /\ apdu.data = 2
    /\ closing
    /\ w = 1
    /\ supervisory_handle
    /\ receive_queue = <<1>>

\* the writer holds payload p: it is in the send queue or in wait_for
C17_Held(p) == p \in QueueIds \/ asdu = Payload(p)

\* C17: in a step in which the running writer is done with a payload, the
\* payload is written as an I-frame if is_enabled is true in that step and
\* discarded if it is false, whatever is_enabled was when send() was called;
\* a step that discards writes no frame, arms no response timer and leaves
\* ssn, ack, waiting_ack, w and the supervisory timer as they were; a step
\* that writes an I-frame discards nothing.
C17_Step ==
    /\ \A p \in 1..nsend :
           C17_Held(p) /\ ~C17_Held(p)' /\ write_pc' # "done" =>
               IF is_enabled
               THEN /\ p \notin discarded'
                    /\ \E i \in DOMAIN IFrames(wire') :
                           IFrames(wire')[i].data = p
               ELSE p \in discarded' /\ wire' = wire
    /\ discarded' # discarded =>
           /\ ~is_enabled
           /\ UNCHANGED <<wire, ssn, ack, waiting_ack_handles, live_handles,
                          w, supervisory_handle>>
    /\ IFrames(wire') # IFrames(wire) => is_enabled /\ discarded' = discarded

\* C17: the writer consults is_enabled when it is about to emit.
C17_EnabledAtEmission == [][C17_Step]_vars

\* C17 witness: payload 1 was enqueued while disabled and written after
\* STARTDT_ACT, payload 2 was enqueued while enabled and discarded after
\* STOPDT_ACT
C17_Witness ==
    /\ enabled_at_send = <<FALSE, TRUE>>
    /\ WirePayloads = <<1>>
    /\ discarded = {2}
    /\ apdu = APDUU("STOPDT_ACT")

\* C18: on an open connection w is the number of I-frames accepted since the
\* last S- or I-frame written (its N_R is w behind rsn), and while w > 0 the
\* supervisory timer is armed, so its expiry is a step the event loop will
\* take.
C18_Pending ==
    ~closing =>
        /\ w > 0 => supervisory_handle
        /\ IF AckFrames = <<>>
           THEN w = Len(accepted)
           ELSE Distance(AckFrames[Len(AckFrames)].rsn, rsn) = w

\* C18: the step that accepts an I-frame and leaves w below
\* receive_window_size writes no frame and leaves the supervisory timer
\* armed, without re-arming one that is armed; the step in which the
\* supervisory timer of an open connection fires writes exactly S(rsn) with
\* the current rsn, sets w to 0 and clears the handle.
C18_Step ==
    /\ accepted' # accepted /\ w + 1 < receive_window_size =>
           /\ wire' = wire
           /\ w' = w + 1
           /\ supervisory_handle'
    /\ /\ supervisory_handle /\ ~supervisory_handle'
       /\ ~closing
       /\ nread' = nread
       /\ IFrames(wire') = IFrames(wire)
       => /\ wire' = Append(wire, APDUS(rsn))
          /\ rsn' = rsn
          /\ w' = 0

\* C18: the supervisory timer acknowledges the I-frames the receive window
\* has not yet acknowledged.
C18_Supervisory == []C18_Pending /\ [][C18_Step]_vars

\* C18 witness: with receive_window_size 2 one I-frame was accepted without
\* an S-frame, then the supervisory timer fired and wrote S(rsn)
C18_Witness ==
    /\ receive_window_size = 2
    /\ nread = 1
    /\ Len(accepted) = 1
    /\ wire = <<APDUS(rsn)>>
    /\ w = 0
    /\ ~supervisory_handle
    /\ ~closing

\* the I-frames accepted since the last S- or I-frame was written
C19_Unacknowledged ==
    IF AckFrames = <<>>
    THEN Len(accepted)
    ELSE Distance(AckFrames[Len(AckFrames)].rsn, rsn)

\* C19: on an open connection fewer than receive_window_size I-frames have
\* been accepted since the last S- or I-frame was written, and w is their
\* number.
C19_Count ==
    ~closing => w = C19_Unacknowledged /\ w < receive_window_size

\* C19: the step that accepts the receive_window_size-th I-frame since the
\* last acknowledgement writes exactly one frame, S(rsn) with rsn already
\* advanced past the frame, and leaves w = 0 and the supervisory timer
\* unarmed; a step that accepts an earlier one writes nothing.
C19_Step ==
    accepted' # accepted =>
        IF w + 1 = receive_window_size
        THEN /\ rsn' = (rsn + 1) % SeqMod
             /\ wire' = Append(wire, APDUS(rsn'))
             /\ w' = 0
             /\ ~supervisory_handle'
        ELSE /\ wire' = wire
             /\ w' = w + 1
             /\ w' < receive_window_size

\* C19: the receive window acknowledges every receive_window_size-th
\* I-frame at once.
C19_ReceiveWindow == []C19_Count /\ [][C19_Step]_vars

\* C19 witness: with receive_window_size 2 two I-frames were accepted back to
\* back and the second one triggered the only S-frame
C19_Witness ==
    /\ receive_window_size = 2
    /\ nread = 2
    /\ Len(accepted) = 2
    /\ wire = <<APDUS(rsn)>>
    /\ w = 0
    /\ ~supervisory_handle
    /\ ~closing

\* C20: on an open connection at most one supervisory timer is armed, it is
\* the one supervisory_handle holds, and it is armed exactly if w > 0, that
\* is exactly if an accepted I-frame is not yet covered by the N_R of an S-
\* or I-frame written.
C20_Armed ==
    ~closing =>
        /\ supervisory_timers <= 1
        /\ supervisory_handle <=> supervisory_timers = 1
        /\ supervisory_timers = 1 <=> w > 0
        /\ w > 0 <=> C19_Unacknowledged > 0

\* C20: a supervisory timer is armed only by a step that accepts an I-frame
\* while none is armed and w = 0.
C20_Step ==
    supervisory_timers' > supervisory_timers =>
        /\ accepted' # accepted
        /\ supervisory_timers = 0
        /\ w = 0
        /\ w' = 1

\* C20: the supervisory timer is armed exactly while an accepted I-frame is
\* unacknowledged.
C20_SupervisoryArmed == []C20_Armed /\ [][C20_Step]_vars

\* C20 witness: the supervisory timer was armed by an I-frame, cleared by the
\* I-frame the writer sent, and armed again by the next I-frame accepted
C20_Witness ==
    /\ receive_window_size = 2
    /\ Len(accepted) = 2
    /\ Len(IFrames(wire)) = 1
    /\ IFrames(wire)[1].rsn = (rsn + SeqMod - 1) % SeqMod
    /\ w = 1
    /\ supervisory_handle
    /\ supervisory_timers = 1
    /\ ~closing

====
